---- MODULE Spec2Model ----
(***************************************************************************)
(* Face mask detection backend: the fan-out broadcaster                    *)
(* (websocket_manager.py), the capture pipeline (video_processor.py) and   *)
(* the statistics aggregator (detection_manager.py), with the handlers of  *)
(* server.py that drive them.                                              *)
(*                                                                         *)
(* The event loop is single-threaded and cooperative: a coroutine runs     *)
(* without interruption from one await to the next, so each action below   *)
(* that belongs to a coroutine is the code between two suspension points.  *)
(* The capture loop runs on a thread of its own and is cut at every access *)
(* to state it shares with the event loop.                                 *)
(***************************************************************************)
EXTENDS Integers, Sequences, FiniteSets, TLC

(***************************************************************************)
(* Bounds of the model.                                                    *)
(***************************************************************************)
\* websocket objects that may connect during a run
NumSockets == 3
\* coroutines that may be inside WebSocketManager.broadcast at the same time
NumBroadcasts == 2

\* calls of VideoProcessor.start_camera during a run
MaxStarts == 2
\* frames the capture threads that are alive have processed, all together
MaxFrames == 6

\* frames the capture threads process during a run of the streams
MaxStreamFrames == 2
\* detections ingested during a run of the aggregator
MaxIngest == 3
\* detections ingested during a run of the alerts and the settings
MaxAlertIngest == 2
\* detections in one batch
MaxBatch == 2
\* detections ingested after the history has become full
MaxOverflow == 2
\* steps of the clock during a run, and the milliseconds of one step
MaxTicks == 2
MaxLimit == 3
MaxReceives == 2
TickMs == 2500

Sockets == 1..NumSockets
Publishers == 1..NumBroadcasts

\* the value Python's None is modelled by
None == 0

VARIABLES
    \* ---- websocket_manager.py / server.websocket_endpoint ----
    active_connections, \* WebSocketManager.active_connections (a set)
    closed,             \* sockets whose channel is closed: send raises ConnectionClosed
    ep,                 \* position of websocket_endpoint for each socket
    b_pc,               \* position of each broadcast coroutine
    b_cur,              \* the websocket of the loop iteration suspended at send
    b_disconnected,     \* broadcast's local set `disconnected`
    b_delivered,        \* sockets whose send returned normally in this call
    b_start,            \* live set when the call was made: the set iterator keeps its size
    e_out,              \* the messages connect and websocket_endpoint delivered to each socket
    e_pings,            \* the pings websocket_endpoint received on each socket
    e_received,         \* the messages websocket_endpoint received, all sockets together
    \* ---- video_processor.py / server.start_detection, stop_detection ----
    camera,             \* VideoProcessor.camera: None or the number of a VideoCapture
    handle,             \* the VideoCapture objects made so far, each "open", "unopened" or "released"
    is_running,         \* VideoProcessor.is_running
    frame_thread,       \* VideoProcessor.frame_thread: None or the number of a thread
    t_pc,               \* position of each capture thread in _capture_frames
    t_count,            \* _capture_frames' local frame_count
    t_dets,             \* _capture_frames' local detections
    current_frame,      \* VideoProcessor.current_frame: NoFrame or the annotated frame
    current_detections, \* VideoProcessor.current_detections
    stop_pc,            \* position of the event loop thread inside stop_camera
    stop_inflight,      \* whether a capture iteration was in flight when stop_camera was last called
    t_callback,         \* what each capture thread has called the detection callback with in its iteration
    s_pc,               \* position of each generate_frame_stream generator
    s_seen,             \* the ticks without a chunk it has had: "noframe", "encfail"
    \* ---- detection_manager.py ----
    detection_history,  \* DetectionManager.detection_history (deque, oldest first)
    statistics,         \* DetectionManager.statistics
    settings,           \* DetectionManager.settings
    last_alert_time,    \* DetectionManager.last_alert_time: id -> ms of its last alert
    now,                \* the wall clock, in ms (time.time() * 1000)
    ingested,           \* detections appended to the history so far
    g_pc,               \* position of each process_detections coroutine
    g_todo,             \* the detections of its batch not yet processed
    g_processed,        \* its local processed_detections
    settings_ret,       \* what update_settings returned last
    history_ret,        \* what get_detection_history is returning to its caller
    db,                 \* db.detections: the ingestion numbers of the stored detections
    g_batch,            \* the batch each process_detections was called with
    alerted_at,         \* id -> ms of the last detection marked alertTriggered with it
    \* ---- observers ----
    t_slept,            \* whether each capture thread has slept since it last read the device
    \* ---- server.handle_new_detections ----
    h_pc,               \* position of the handle_new_detections task
    h_processed,        \* its processed_detections
    h_queue,            \* the events it has still to send
    h_sent              \* the events it has called broadcast with, in order

wsVars == <<active_connections, closed, ep, b_pc, b_cur, b_disconnected,
            b_delivered, b_start, e_out, e_pings, e_received>>

vpVars == <<camera, handle, is_running, frame_thread, t_pc, t_count, t_dets,
            current_frame, current_detections, stop_pc, stop_inflight, t_callback>>

sgVars == <<s_pc, s_seen>>

dmVars == <<detection_history, statistics, settings, last_alert_time, now, ingested,
            g_pc, g_todo, g_processed, settings_ret, alerted_at, history_ret, db,
            g_batch>>

obVars == <<t_slept>>

hnVars == <<h_pc, h_processed, h_queue, h_sent>>

vars == <<wsVars, vpVars, sgVars, dmVars, obVars, hnVars>>

(***************************************************************************)
(* websocket_manager.py                                                    *)
(***************************************************************************)

\* set.discard
Discard(S, w) == S \ {w}

\* get_connection_count
get_connection_count == Cardinality(active_connections)

\* Outcome of `await websocket.send(message)`: it raises on a closed channel.
SendOk(w) == w \notin closed

\* next() of the iterator of a Python set.  CPython compares the set's size
\* with the size it had when the iterator was made and raises RuntimeError
\* ("Set changed size during iteration") when they differ; otherwise it scans
\* the table on from the slot it stopped at.  A socket's slot is its number.
SetIterNext(S, used, pos) ==
    IF Cardinality(S) # used THEN "RuntimeError"
    ELSE IF \E w \in S : w > pos THEN "yield"
    ELSE "StopIteration"

SetIterItem(S, pos) == CHOOSE w \in S : w > pos /\ \A v \in S : v > pos => w <= v

\* Lines 59-61: the sockets collected in `disconnected` leave the live set.
PruneNoRemoval(S, D) == S
Prune(S, D) == S \ D

\* The for statement asks the iterator for the next socket (line 50): the
\* exception leaves broadcast, or the next send starts, or the loop is over
\* and lines 59-64 run before the coroutine returns.
BroadcastAdvance(b, pos, disc, deliv) ==
    LET r == SetIterNext(active_connections, Cardinality(b_start[b]), pos) IN
    /\ b_disconnected' = [b_disconnected EXCEPT ![b] = disc]
    /\ b_delivered' = [b_delivered EXCEPT ![b] = deliv]
    /\ CASE r = "RuntimeError" ->
              /\ b_pc' = [b_pc EXCEPT ![b] = "raised"]
              /\ b_cur' = [b_cur EXCEPT ![b] = None]
              /\ UNCHANGED active_connections
         [] r = "yield" ->
              /\ b_pc' = [b_pc EXCEPT ![b] = "sending"]
              /\ b_cur' = [b_cur EXCEPT ![b] = SetIterItem(active_connections, pos)]
              /\ UNCHANGED active_connections
         [] r = "StopIteration" ->
              /\ b_pc' = [b_pc EXCEPT ![b] = "done"]
              /\ b_cur' = [b_cur EXCEPT ![b] = None]
              /\ active_connections' = Prune(active_connections, disc)

\* broadcast is called (lines 42-50): it returns at once on an empty live set,
\* and otherwise runs up to the first send.
BroadcastStart(b) ==
    /\ b_pc[b] = "idle"
    /\ b_start' = [b_start EXCEPT ![b] = active_connections]
    /\ UNCHANGED <<closed, ep, e_out, e_pings, e_received>>
    /\ IF active_connections = {}
       THEN /\ b_pc' = [b_pc EXCEPT ![b] = "done"]
            /\ b_cur' = [b_cur EXCEPT ![b] = None]
            /\ b_disconnected' = [b_disconnected EXCEPT ![b] = {}]
            /\ b_delivered' = [b_delivered EXCEPT ![b] = {}]
            /\ UNCHANGED active_connections
       ELSE /\ b_pc' = [b_pc EXCEPT ![b] = "sending"]
            /\ b_cur' = [b_cur EXCEPT ![b] = SetIterItem(active_connections, 0)]
            /\ b_disconnected' = [b_disconnected EXCEPT ![b] = {}]
            /\ b_delivered' = [b_delivered EXCEPT ![b] = {}]
            /\ UNCHANGED active_connections

\* The send the coroutine was suspended at completes (lines 51-57) and the
\* loop goes on.
BroadcastResume(b) ==
    /\ b_pc[b] = "sending"
    /\ UNCHANGED <<closed, ep, b_start, e_out, e_pings, e_received>>
    /\ LET w == b_cur[b] IN
       IF SendOk(w)
       THEN BroadcastAdvance(b, w, b_disconnected[b], b_delivered[b] \cup {w})
       ELSE BroadcastAdvance(b, w, b_disconnected[b] \cup {w}, b_delivered[b])

\* The caller of broadcast takes its outcome; the coroutine object is gone.
BroadcastReturn(b) ==
    /\ b_pc[b] \in {"done", "raised"}
    /\ b_pc' = [b_pc EXCEPT ![b] = "idle"]
    /\ b_cur' = [b_cur EXCEPT ![b] = None]
    /\ b_disconnected' = [b_disconnected EXCEPT ![b] = {}]
    /\ b_delivered' = [b_delivered EXCEPT ![b] = {}]
    /\ b_start' = [b_start EXCEPT ![b] = {}]
    /\ UNCHANGED <<active_connections, closed, ep, e_out, e_pings, e_received>>

\* connect, lines 14-20: the socket joins the live set and the coroutine
\* suspends at the send of the welcome message.
Connect(w) ==
    /\ ep[w] = "none"
    /\ active_connections' = active_connections \cup {w}
    /\ ep' = [ep EXCEPT ![w] = "welcome"]
    /\ UNCHANGED <<closed, b_pc, b_cur, b_disconnected, b_delivered, b_start,
                   e_out, e_pings, e_received>>

\* send_to_connection, lines 30-40, as called by connect: a failed send
\* discards the socket.  websocket_endpoint then waits in receive_text.
ConnectWelcomeKeeping(w) ==
    /\ ep[w] = "welcome"
    /\ ep' = [ep EXCEPT ![w] = "recv"]
    /\ e_out' = IF SendOk(w)
                THEN [e_out EXCEPT ![w] = Append(@, "connection_established")]
                ELSE e_out
    /\ UNCHANGED <<active_connections, closed, b_pc, b_cur, b_disconnected,
                   b_delivered, b_start, e_pings, e_received>>
ConnectWelcome(w) ==
    /\ ep[w] = "welcome"
    /\ ep' = [ep EXCEPT ![w] = "recv"]
    /\ active_connections' =
           IF SendOk(w) THEN active_connections ELSE Discard(active_connections, w)
    /\ e_out' = IF SendOk(w)
                THEN [e_out EXCEPT ![w] = Append(@, "connection_established")]
                ELSE e_out
    /\ UNCHANGED <<closed, b_pc, b_cur, b_disconnected, b_delivered, b_start,
                   e_pings, e_received>>

\* What a peer sends: a ping, a JSON object of another type, JSON that is not
\* an object, and text that is not JSON.
Messages == {"ping", "other", "notobject", "notjson"}

\* json.loads(data) and message.get('type'), lines 333 and 336: json.loads
\* raises on text that is not JSON, and .get raises on a value that is not a
\* dict.
Parses(msg) == msg \in {"ping", "other"}

\* websocket_endpoint, lines 332-343: receive_text returns a message.  A ping
\* starts the send of the pong; a message that does not parse raises, the
\* handler of line 341 disconnects the socket and the endpoint returns, which
\* closes the channel.
Receive(w, msg) ==
    /\ ep[w] = "recv"
    /\ w \notin closed
    /\ e_received' = e_received + 1
    /\ e_pings' = IF msg = "ping" THEN [e_pings EXCEPT ![w] = @ + 1] ELSE e_pings
    /\ IF Parses(msg)
       THEN /\ ep' = [ep EXCEPT ![w] = IF msg = "ping" THEN "pong" ELSE "recv"]
            /\ UNCHANGED <<active_connections, closed>>
       ELSE /\ ep' = [ep EXCEPT ![w] = "ended"]
            /\ active_connections' = Discard(active_connections, w)
            /\ closed' = closed \cup {w}
    /\ UNCHANGED <<b_pc, b_cur, b_disconnected, b_delivered, b_start, e_out>>

\* websocket.send_text of the pong, line 337, completes: on a closed channel
\* it raises, and lines 339-343 disconnect the socket.
PongSend(w) ==
    /\ ep[w] = "pong"
    /\ IF SendOk(w)
       THEN /\ e_out' = [e_out EXCEPT ![w] = Append(@, "pong")]
            /\ ep' = [ep EXCEPT ![w] = "recv"]
            /\ UNCHANGED active_connections
       ELSE /\ ep' = [ep EXCEPT ![w] = "ended"]
            /\ active_connections' = Discard(active_connections, w)
            /\ UNCHANGED e_out
    /\ UNCHANGED <<closed, b_pc, b_cur, b_disconnected, b_delivered, b_start,
                   e_pings, e_received>>

\* server.websocket_endpoint, lines 339-343, and disconnect, lines 25-28:
\* receive_text raises on the closed channel and the socket is discarded.
Disconnect(w) ==
    /\ ep[w] = "recv"
    /\ w \in closed
    /\ ep' = [ep EXCEPT ![w] = "ended"]
    /\ active_connections' = Discard(active_connections, w)
    /\ UNCHANGED <<closed, b_pc, b_cur, b_disconnected, b_delivered, b_start,
                   e_out, e_pings, e_received>>

\* The peer of an accepted socket goes away.
ChannelClose(w) ==
    /\ ep[w] \in {"welcome", "recv", "pong"}
    /\ w \notin closed
    /\ closed' = closed \cup {w}
    /\ UNCHANGED <<active_connections, ep, b_pc, b_cur, b_disconnected,
                   b_delivered, b_start, e_out, e_pings, e_received>>

InitWS ==
    /\ active_connections = {}
    /\ closed = {}
    /\ ep = [w \in Sockets |-> "none"]
    /\ b_pc = [b \in Publishers |-> "idle"]
    /\ b_cur = [b \in Publishers |-> None]
    /\ b_disconnected = [b \in Publishers |-> {}]
    /\ b_delivered = [b \in Publishers |-> {}]
    /\ b_start = [b \in Publishers |-> {}]
    /\ e_out = [w \in Sockets |-> <<>>]
    /\ e_pings = [w \in Sockets |-> 0]
    /\ e_received = 0

(***************************************************************************)
(* video_processor.py                                                      *)
(***************************************************************************)

Threads == 1..MaxStarts

\* _capture_frames, line 65
detection_interval == 5

\* What detect_faces_and_masks may return for a frame: a list of detections,
\* each with hasMask and confidence (in hundredths); it returns [] when it
\* finds no face or fails (face_detection.py lines 122, 157-159).
Batches == { <<>>,
             <<[hasMask |-> FALSE, confidence |-> 95]>> }

\* draw_detections (face_detection.py lines 161-195): the frame with the boxes
\* and labels of `detections` drawn on it.  The detections it is given are
\* those detect_faces_and_masks built, so its except branch is not modelled.
draw_detections(detections) == [frame |-> TRUE, dets |-> detections]

\* current_frame before the first frame is stored (line 16: None)
NoFrame == [frame |-> FALSE, dets |-> <<>>]

\* is_camera_running, lines 146-148
is_camera_running == is_running /\ camera # None

\* The detection callback (line 94) in one iteration of the loop: not called,
\* or called with a batch.
NotCalled == [called |-> FALSE, arg |-> <<>>]
Called(batch) == [called |-> TRUE, arg |-> batch]

\* A capture thread that is past the loop test and inside an iteration.
InIteration(t) == t_pc[t] \in {"read", "detect", "publish", "sleep"}

Alive(t) == t_pc[t] \notin {"unborn", "dead"}

\* CPython frees the VideoCapture that self.camera no longer refers to, which
\* releases its device; release() (line 54) does the same.
ReleasedNot(h, c) == h
Released(h, c) == IF c = None THEN h ELSE [h EXCEPT ![c] = "released"]

\* start_camera, lines 21-44.  `opened` is what isOpened() reports for the
\* new VideoCapture.
start_camera(opened) ==
    /\ Len(handle) < MaxStarts
    /\ LET h == Len(handle) + 1 IN
       /\ camera' = h
       /\ handle' = Append(Released(handle, camera),
                           IF opened THEN "open" ELSE "unopened")
       /\ IF opened
          THEN /\ is_running' = TRUE
               /\ frame_thread' = h
               /\ t_pc' = [t_pc EXCEPT ![h] = "check"]
          ELSE UNCHANGED <<is_running, frame_thread, t_pc>>
    /\ UNCHANGED <<t_count, t_dets, current_frame, current_detections, stop_pc,
                   stop_inflight, t_callback>>

\* A caller of VideoProcessor.start_camera other than the guarded endpoint.
StartCamera(opened) ==
    /\ stop_pc = "idle"
    /\ start_camera(opened)

\* server.start_detection, lines 174-188
StartDetection(opened) ==
    /\ stop_pc = "idle"
    /\ IF ~is_camera_running
       THEN start_camera(opened)
       ELSE UNCHANGED vpVars

\* stop_camera, lines 48-50: the flag is cleared and the caller waits in
\* join for at most 2 seconds.
StopBeginToggling ==
    /\ stop_pc = "idle"
    /\ is_running' = ~is_running
    /\ stop_pc' = IF frame_thread # None THEN "join" ELSE "release"
    /\ stop_inflight' = (frame_thread # None /\ InIteration(frame_thread))
    /\ UNCHANGED <<camera, handle, frame_thread, t_pc, t_count, t_dets,
                   current_frame, current_detections, t_callback>>
StopBegin ==
    /\ stop_pc = "idle"
    /\ is_running' = FALSE
    /\ stop_pc' = IF frame_thread # None THEN "join" ELSE "release"
    /\ stop_inflight' = (frame_thread # None /\ InIteration(frame_thread))
    /\ UNCHANGED <<camera, handle, frame_thread, t_pc, t_count, t_dets,
                   current_frame, current_detections, t_callback>>

\* A caller of VideoProcessor.stop_camera other than the guarded endpoint
\* (lifespan's shutdown, server.py line 114).
StopCamera == StopBegin

\* server.stop_detection, lines 190-201
StopDetection ==
    /\ stop_pc = "idle"
    /\ IF is_camera_running
       THEN StopBegin
       ELSE UNCHANGED vpVars

\* join(timeout=2.0), line 50, returns: the thread has ended, or the two
\* seconds are over and it has not.
StopJoin ==
    /\ stop_pc = "join"
    /\ stop_pc' = "release"
    /\ UNCHANGED <<camera, handle, is_running, frame_thread, t_pc, t_count, t_dets,
                   current_frame, current_detections, stop_inflight, t_callback>>

\* stop_camera, lines 52-56
StopRelease ==
    /\ stop_pc = "release"
    /\ handle' = Released(handle, camera)
    /\ camera' = None
    /\ stop_pc' = "idle"
    /\ UNCHANGED <<is_running, frame_thread, t_pc, t_count, t_dets, current_frame,
                   current_detections, stop_inflight, t_callback>>

\* _capture_frames, line 67: the loop test
LoopCheckIgnoringFlag(t) ==
    /\ t_pc[t] = "check"
    /\ t_pc' = [t_pc EXCEPT ![t] = "read"]
    /\ UNCHANGED <<camera, handle, is_running, frame_thread, t_count, t_dets,
                   current_frame, current_detections, stop_pc, stop_inflight, t_callback>>
LoopCheck(t) ==
    /\ t_pc[t] = "check"
    /\ t_pc' = [t_pc EXCEPT ![t] = IF is_running THEN "read" ELSE "dead"]
    /\ t_count' = [t_count EXCEPT ![t] = IF is_running THEN @ ELSE 0]
    /\ UNCHANGED <<camera, handle, is_running, frame_thread, t_dets,
                   current_frame, current_detections, stop_pc, stop_inflight, t_callback>>

RECURSIVE SumCount(_)
SumCount(n) == IF n = 0 THEN 0 ELSE t_count[n] + SumCount(n - 1)

FramesProcessed == SumCount(MaxStarts)

\* _capture_frames, lines 69-75.  self.camera is None after stop_camera
\* (AttributeError, handled at lines 110-112 with a sleep); a VideoCapture
\* that is not open returns ret = False, and an open one may (`ret`).
ReadFrameEnding(t, ret) ==
    /\ t_pc[t] = "read"
    /\ t_pc' = [t_pc EXCEPT ![t] =
           IF camera = None THEN "sleep"
           ELSE IF handle[camera] = "open" /\ ret THEN "detect"
           ELSE "dead"]
    /\ camera # None /\ handle[camera] = "open" /\ ret => FramesProcessed < MaxFrames
    /\ UNCHANGED <<camera, handle, is_running, frame_thread, t_count, t_dets,
                   current_frame, current_detections, stop_pc, stop_inflight, t_callback>>
ReadFrame(t, ret) ==
    /\ t_pc[t] = "read"
    /\ t_pc' = [t_pc EXCEPT ![t] =
           IF camera = None THEN "sleep"
           ELSE IF handle[camera] = "open" /\ ret THEN "detect"
           ELSE "check"]
    /\ camera # None /\ handle[camera] = "open" /\ ret => FramesProcessed < MaxFrames
    /\ UNCHANGED <<camera, handle, is_running, frame_thread, t_count, t_dets,
                   current_frame, current_detections, stop_pc, stop_inflight, t_callback>>

\* _capture_frames, lines 77-98: every detection_interval-th frame is given
\* to the detector, the batch is stored and, when it is not empty, handed to
\* the detection callback; when the callback raises (`ok` false) the handler
\* at lines 110-112 ends the iteration.  The other frames take a copy of the
\* stored batch.
DetectEveryFrame(t, batch, ok) ==
    /\ t_pc[t] = "detect"
    /\ current_detections' = batch
    /\ batch = <<>> => ok
    /\ t_callback' = [t_callback EXCEPT ![t] =
           IF batch # <<>> THEN Called(batch) ELSE NotCalled]
    /\ t_dets' = [t_dets EXCEPT ![t] = IF ok THEN batch ELSE <<>>]
    /\ t_pc' = [t_pc EXCEPT ![t] = IF ok THEN "publish" ELSE "sleep"]
    /\ UNCHANGED <<camera, handle, is_running, frame_thread, t_count, current_frame,
                   stop_pc, stop_inflight>>
DetectCallingOnEmpty(t, batch, ok) ==
    /\ t_pc[t] = "detect"
    /\ IF t_count[t] % detection_interval = 0
       THEN /\ current_detections' = batch
            /\ t_callback' = [t_callback EXCEPT ![t] = Called(batch)]
            /\ t_dets' = [t_dets EXCEPT ![t] = IF ok THEN batch ELSE <<>>]
            /\ t_pc' = [t_pc EXCEPT ![t] = IF ok THEN "publish" ELSE "sleep"]
       ELSE /\ batch = <<>> /\ ok
            /\ t_dets' = [t_dets EXCEPT ![t] = current_detections]
            /\ t_pc' = [t_pc EXCEPT ![t] = "publish"]
            /\ UNCHANGED <<current_detections, t_callback>>
    /\ UNCHANGED <<camera, handle, is_running, frame_thread, t_count, current_frame,
                   stop_pc, stop_inflight>>
Detect(t, batch, ok) ==
    /\ t_pc[t] = "detect"
    /\ IF t_count[t] % detection_interval = 0
       THEN /\ current_detections' = batch
            /\ batch = <<>> => ok
            /\ t_callback' = [t_callback EXCEPT ![t] =
                   IF batch # <<>> THEN Called(batch) ELSE NotCalled]
            /\ t_dets' = [t_dets EXCEPT ![t] = IF ok THEN batch ELSE <<>>]
            /\ t_pc' = [t_pc EXCEPT ![t] = IF ok THEN "publish" ELSE "sleep"]
       ELSE /\ batch = <<>> /\ ok
            /\ t_dets' = [t_dets EXCEPT ![t] = current_detections]
            /\ t_pc' = [t_pc EXCEPT ![t] = "publish"]
            /\ UNCHANGED <<current_detections, t_callback>>
    /\ UNCHANGED <<camera, handle, is_running, frame_thread, t_count, current_frame,
                   stop_pc, stop_inflight>>

\* _capture_frames, lines 100-107; `detections` is a fresh list in the next
\* iteration (line 77).
Publish(t) ==
    /\ t_pc[t] = "publish"
    /\ current_frame' = draw_detections(t_dets[t])
    /\ t_count' = [t_count EXCEPT ![t] = @ + 1]
    /\ t_pc' = [t_pc EXCEPT ![t] = "sleep"]
    /\ t_dets' = [t_dets EXCEPT ![t] = <<>>]
    /\ UNCHANGED <<camera, handle, is_running, frame_thread,
                   current_detections, stop_pc, stop_inflight, t_callback>>

\* time.sleep, line 108 or line 112: the iteration ends
Sleep(t) ==
    /\ t_pc[t] = "sleep"
    /\ t_pc' = [t_pc EXCEPT ![t] = "check"]
    /\ t_callback' = [t_callback EXCEPT ![t] = NotCalled]
    /\ UNCHANGED <<camera, handle, is_running, frame_thread, t_count, t_dets,
                   current_frame, current_detections, stop_pc, stop_inflight>>

\* VideoProcessor.__init__, lines 12-19
InitVP ==
    /\ camera = None
    /\ handle = <<>>
    /\ is_running = FALSE
    /\ frame_thread = None
    /\ t_pc = [t \in Threads |-> "unborn"]
    /\ t_count = [t \in Threads |-> 0]
    /\ t_dets = [t \in Threads |-> <<>>]
    /\ current_frame = NoFrame
    /\ current_detections = <<>>
    /\ stop_pc = "idle"
    /\ stop_inflight = FALSE
    /\ t_callback = [t \in Threads |-> NotCalled]

(***************************************************************************)
(* video_processor.py: generate_frame_stream, and server.video_feed        *)
(***************************************************************************)

\* The generators made by GET /video_feed.
Streams == {"s1"}

\* What cv2.imencode can do with a frame (lines 137-142): return ret true,
\* return ret false, or raise.
Encodings == {"ok", "false", "raise"}

\* server.video_feed, lines 203-216: the generator is made when the camera is
\* running, and the request is answered with 404 when it is not.  Its body
\* runs when the response asks for the first chunk.
VideoFeed(s) ==
    /\ s_pc[s] = "unborn"
    /\ stop_pc = "idle"
    /\ s_pc' = [s_pc EXCEPT ![s] = IF is_camera_running THEN "check" ELSE "unborn"]
    /\ UNCHANGED s_seen

\* generate_frame_stream, line 132: the loop test; the generator ends when
\* is_running is false.
StreamCheck(s) ==
    /\ s_pc[s] = "check"
    /\ s_pc' = [s_pc EXCEPT ![s] = IF is_running THEN "sample" ELSE "ended"]
    /\ UNCHANGED s_seen

\* Whether a tick that finds `frame` (get_current_frame, lines 114-119) and
\* encodes it with the outcome `enc` yields a chunk (lines 134-140).
YieldsChunkAlways(frame, enc) == enc = "ok"
YieldsChunk(frame, enc) == frame.frame /\ enc = "ok"

\* generate_frame_stream, lines 133-142: the frame is sampled and, when there
\* is one, encoded; a chunk is yielded when the encoding succeeds.
StreamSample(s, enc) ==
    /\ s_pc[s] = "sample"
    /\ current_frame.frame \/ enc = "ok"
    /\ s_pc' = [s_pc EXCEPT ![s] =
           IF YieldsChunk(current_frame, enc) THEN "yielded" ELSE "sleep"]
    /\ s_seen' = [s_seen EXCEPT ![s] =
           IF ~current_frame.frame THEN @ \cup {"noframe"}
           ELSE IF enc # "ok" THEN @ \cup {"encfail"}
           ELSE @]

\* The response takes the chunk and asks for the next: the generator goes on
\* after its yield.
StreamResume(s) ==
    /\ s_pc[s] = "yielded"
    /\ s_pc' = [s_pc EXCEPT ![s] = "sleep"]
    /\ UNCHANGED s_seen

\* time.sleep(0.033), line 144
StreamSleep(s) ==
    /\ s_pc[s] = "sleep"
    /\ s_pc' = [s_pc EXCEPT ![s] = "check"]
    /\ UNCHANGED s_seen

InitSG ==
    /\ s_pc = [s \in Streams |-> "unborn"]
    /\ s_seen = [s \in Streams |-> {}]

(***************************************************************************)
(* detection_manager.py: DetectionManager                                  *)
(***************************************************************************)

\* deque(maxlen=1000), line 15
maxlen == 1000

\* The two callers of process_detections: the camera callback
\* (server.handle_new_detections, line 123) and the image upload
\* (server.detect_image, line 297).
IngestTasks == {"camera", "upload"}

\* The values uuid4 (line 38) can return; a small set so that two detections
\* can get the same id.
IDs == {"u1", "u2"}

\* The detections a batch is made of: hasMask and confidence in hundredths.
Kinds == { [hasMask |-> FALSE, confidence |-> 95],
           [hasMask |-> FALSE, confidence |-> 50],
           [hasMask |-> TRUE,  confidence |-> 90] }

InputBatches == UNION { [1..n -> Kinds] : n \in 0..MaxBatch }

\* The clock starts later than any cooldown the settings can hold, as the
\* milliseconds since 1970 do.
StartTime == 4 * TickMs

\* __init__, lines 25-30 (confidenceThreshold in hundredths); the pydantic
\* model Settings of server.py, lines 61-65, has the same defaults.
DefaultSettings == [visualAlerts |-> TRUE, soundAlerts |-> TRUE,
                    confidenceThreshold |-> 80, alertCooldown |-> 5000]

\* __init__, lines 16-24.  complianceRate is in hundredths of a percent and
\* avgConfidence in thousandths; lastUpdate, a time stamp, is left out.
InitialStatistics == [totalDetections |-> 0, maskedCount |-> 0, unmaskedCount |-> 0,
                      complianceRate |-> 0, avgConfidence |-> 0, activeAlerts |-> 0]

\* The partial settings objects a caller passes.
SettingsUpdates == { [confidenceThreshold |-> 50], [alertCooldown |-> 2500] }

\* dict.update (line 127): the keys of `new` take its values, the other keys
\* keep theirs.
DictUpdateResetting(old, new) ==
    [k \in DOMAIN old \cup DOMAIN new |->
        IF k \in DOMAIN new THEN new[k] ELSE DefaultSettings[k]]
DictUpdate(old, new) ==
    [k \in DOMAIN old \cup DOMAIN new |-> IF k \in DOMAIN new THEN new[k] ELSE old[k]]

\* Settings(**body).dict() (server.py lines 264, 268): pydantic fills the
\* fields the request body does not name with the defaults of the model.
SettingsDict(body) == DictUpdate(DefaultSettings, body)

\* deque.append with maxlen (line 55): a full deque drops its oldest item.
DequeAppendEvicting(h, e) == IF Len(h) >= 1 THEN Append(Tail(h), e) ELSE Append(h, e)
DequeAppend(h, e) == IF Len(h) >= maxlen THEN Append(Tail(h), e) ELSE Append(h, e)

\* round(num / den): Python rounds to the nearest, a tie to the even one.
RoundDiv(num, den) ==
    LET q == num \div den
        r == num % den
    IN  IF 2 * r < den THEN q
        ELSE IF 2 * r > den THEN q + 1
        ELSE IF q % 2 = 0 THEN q ELSE q + 1

Confidences == { d.confidence : d \in Kinds }

RECURSIVE SumOver(_, _)
SumOver(h, cs) ==
    IF cs = {} THEN 0
    ELSE LET c == CHOOSE x \in cs : TRUE
         IN  c * Cardinality({ i \in 1..Len(h) : h[i].confidence = c }) + SumOver(h, cs \ {c})

\* sum(d['confidence'] for d in history), line 81
SumConfidence(h) == SumOver(h, Confidences)

\* sum(1 for d in history if d['hasMask']), line 78
MaskedCount(h) == Cardinality({ i \in 1..Len(h) : h[i].hasMask })

\* update_statistics, lines 69-93: nothing is written when the history is
\* empty; activeAlerts is not among the keys it updates.
update_statistics_truncating(h, st) ==
    IF Len(h) = 0 THEN st
    ELSE [st EXCEPT !.totalDetections = Len(h),
                    !.maskedCount = MaskedCount(h),
                    !.unmaskedCount = Len(h) - MaskedCount(h),
                    !.complianceRate = (MaskedCount(h) * 10000) \div Len(h),
                    !.avgConfidence = RoundDiv(SumConfidence(h) * 10, Len(h))]
update_statistics(h, st) ==
    IF Len(h) = 0 THEN st
    ELSE [st EXCEPT !.totalDetections = Len(h),
                    !.maskedCount = MaskedCount(h),
                    !.unmaskedCount = Len(h) - MaskedCount(h),
                    !.complianceRate = RoundDiv(MaskedCount(h) * 10000, Len(h)),
                    !.avgConfidence = RoundDiv(SumConfidence(h) * 10, Len(h))]

\* last_alert_time.get(detection_id, 0), line 47
LastAlertForgotten(id) == 0
LastAlert(id) == IF id \in DOMAIN last_alert_time THEN last_alert_time[id] ELSE 0

\* the alert test of lines 45 and 49
AlertDueStrict(d, id) ==
    /\ ~d.hasMask
    /\ d.confidence > settings.confidenceThreshold
    /\ now - LastAlert(id) >= settings.alertCooldown
AlertDue(d, id) ==
    /\ ~d.hasMask
    /\ d.confidence >= settings.confidenceThreshold
    /\ now - LastAlert(id) >= settings.alertCooldown

\* dict[key] = value
Put(f, k, v) == [x \in DOMAIN f \cup {k} |-> IF x = k THEN v ELSE f[x]]

\* The empty dict.
EmptyMap == [x \in {} |-> 0]

\* One pass of the loop body of process_detections up to its await, lines
\* 37-56: the detection gets its id, the alert is decided and recorded, and
\* the detection is appended to the history and to the local list.
ProcessOne(k, d, id) ==
    LET alert == AlertDue(d, id)
        entry == [n |-> ingested + 1, id |-> id, hasMask |-> d.hasMask,
                  confidence |-> d.confidence, alertTriggered |-> alert]
    IN  /\ last_alert_time' = IF alert THEN Put(last_alert_time, id, now) ELSE last_alert_time
        /\ alerted_at' = IF alert THEN Put(alerted_at, id, now) ELSE alerted_at
        /\ statistics' = IF alert
                         THEN [statistics EXCEPT !.activeAlerts = @ + 1]
                         ELSE statistics
        /\ detection_history' = DequeAppend(detection_history, entry)
        /\ g_processed' = [g_processed EXCEPT ![k] = Append(@, entry)]
        /\ ingested' = ingested + 1

\* The end of process_detections, lines 64-67: the statistics are recomputed
\* and the processed list is returned.
IngestFinish(k) ==
    /\ statistics' = update_statistics(detection_history, statistics)
    /\ g_pc' = [g_pc EXCEPT ![k] = "done"]
    /\ UNCHANGED <<detection_history, last_alert_time, alerted_at, ingested,
                   g_todo, g_processed>>

\* process_detections(batch) from its call to its first await (line 60), or
\* to its return when the batch is empty.
IngestStart(k, batch, id) ==
    /\ g_pc[k] = "idle"
    /\ g_batch' = [g_batch EXCEPT ![k] = batch]
    /\ IF batch = <<>>
       THEN IngestFinish(k)
       ELSE /\ ProcessOne(k, Head(batch), id)
            /\ g_todo' = [g_todo EXCEPT ![k] = Tail(batch)]
            /\ g_pc' = [g_pc EXCEPT ![k] = "insert"]
    /\ UNCHANGED <<settings, now, settings_ret, history_ret, db>>

\* insert_one returns (`saved`) or raises (lines 59-62; the exception is
\* caught and logged) for the detection processed last, and the coroutine
\* runs to its next await or to its return.
IngestResumeRaising(k, id, saved) ==
    /\ g_pc[k] = "insert"
    /\ db' = IF saved THEN db \cup {g_processed[k][Len(g_processed[k])].n} ELSE db
    /\ IF ~saved
       THEN /\ g_pc' = [g_pc EXCEPT ![k] = "raised"]
            /\ UNCHANGED <<detection_history, statistics, last_alert_time, alerted_at,
                           ingested, g_todo, g_processed>>
       ELSE IF g_todo[k] = <<>>
       THEN IngestFinish(k)
       ELSE /\ ProcessOne(k, Head(g_todo[k]), id)
            /\ g_todo' = [g_todo EXCEPT ![k] = Tail(@)]
            /\ UNCHANGED g_pc
    /\ UNCHANGED <<settings, now, settings_ret, history_ret, g_batch>>
IngestResume(k, id, saved) ==
    /\ g_pc[k] = "insert"
    /\ db' = IF saved THEN db \cup {g_processed[k][Len(g_processed[k])].n} ELSE db
    /\ IF g_todo[k] = <<>>
       THEN IngestFinish(k)
       ELSE /\ ProcessOne(k, Head(g_todo[k]), id)
            /\ g_todo' = [g_todo EXCEPT ![k] = Tail(@)]
            /\ UNCHANGED g_pc
    /\ UNCHANGED <<settings, now, settings_ret, history_ret, g_batch>>

\* The caller takes the returned list, or the exception.
IngestReturn(k) ==
    /\ g_pc[k] \in {"done", "raised"}
    /\ g_pc' = [g_pc EXCEPT ![k] = "idle"]
    /\ g_processed' = [g_processed EXCEPT ![k] = <<>>]
    /\ g_todo' = [g_todo EXCEPT ![k] = <<>>]
    /\ g_batch' = [g_batch EXCEPT ![k] = <<>>]
    /\ UNCHANGED <<detection_history, statistics, settings, last_alert_time, now,
                   ingested, settings_ret, alerted_at, history_ret, db>>

\* update_settings, lines 124-132
update_settings(new_settings) ==
    /\ settings' = DictUpdate(settings, new_settings)
    /\ settings_ret' = settings'
    /\ UNCHANGED <<detection_history, statistics, last_alert_time, now, ingested,
                   g_pc, g_todo, g_processed, alerted_at, history_ret, db, g_batch>>

\* PUT /settings, server.py lines 263-274, with the JSON object `body`.
PutSettings(body) == update_settings(SettingsDict(body))

\* clear_alerts, lines 134-137
clear_alerts_all ==
    /\ statistics' = InitialStatistics
    /\ last_alert_time' = EmptyMap
    /\ UNCHANGED <<detection_history, settings, now, ingested, g_pc, g_todo,
                   g_processed, settings_ret, alerted_at, history_ret, db, g_batch>>
clear_alerts ==
    /\ statistics' = [statistics EXCEPT !.activeAlerts = 0]
    /\ last_alert_time' = EmptyMap
    /\ UNCHANGED <<detection_history, settings, now, ingested, g_pc, g_todo,
                   g_processed, settings_ret, alerted_at, history_ret, db, g_batch>>

\* Time passes.
Tick ==
    /\ now < StartTime + MaxTicks * TickMs
    /\ now' = now + TickMs
    /\ UNCHANGED <<detection_history, statistics, settings, last_alert_time, ingested,
                   g_pc, g_todo, g_processed, settings_ret, alerted_at, history_ret, db,
                   g_batch>>

\* get_statistics, lines 95-97: a copy of the statistics as they are
get_statistics == statistics

\* The limits a reader of the history asks for.
Limits == 0..MaxLimit

\* list[start:] for a start that is zero or negative: a negative start counts
\* from the end and stops at the first item, and -0 is 0, the first item.
SliceFrom(s, start) ==
    LET first == IF start < 0
                 THEN (IF Len(s) + start < 0 THEN 0 ELSE Len(s) + start)
                 ELSE (IF start > Len(s) THEN Len(s) ELSE start)
    IN  SubSeq(s, first + 1, Len(s))

\* get_detection_history, lines 99-102
get_detection_history(limit) ==
    IF limit < Len(detection_history)
    THEN SliceFrom(detection_history, 0 - limit)
    ELSE detection_history

\* No get_detection_history is returning.
NoHistory == [called |-> FALSE, limit |-> 0, result |-> <<>>]

\* GET /detections?limit=..., server.py lines 238-249
GetDetections(limit) ==
    /\ ~history_ret.called
    /\ history_ret' = [called |-> TRUE, limit |-> limit,
                       result |-> get_detection_history(limit)]
    /\ UNCHANGED <<detection_history, statistics, settings, last_alert_time, now,
                   ingested, g_pc, g_todo, g_processed, settings_ret, alerted_at, db,
                   g_batch>>

\* The handler sends the response.
GetDetectionsReturn ==
    /\ history_ret.called
    /\ history_ret' = NoHistory
    /\ UNCHANGED <<detection_history, statistics, settings, last_alert_time, now,
                   ingested, g_pc, g_todo, g_processed, settings_ret, alerted_at, db,
                   g_batch>>

\* What update_settings has returned before its first call: nothing.
NoSettings == [returned |-> FALSE]

InitDM ==
    /\ detection_history = <<>>
    /\ statistics = InitialStatistics
    /\ settings = DefaultSettings
    /\ last_alert_time = EmptyMap
    /\ now = StartTime
    /\ ingested = 0
    /\ g_pc = [k \in IngestTasks |-> "idle"]
    /\ g_todo = [k \in IngestTasks |-> <<>>]
    /\ g_processed = [k \in IngestTasks |-> <<>>]
    /\ settings_ret = NoSettings
    /\ history_ret = NoHistory
    /\ db = {}
    /\ g_batch = [k \in IngestTasks |-> <<>>]
    /\ alerted_at = EmptyMap

\* The caller of process_detections or of get_detection_history goes on at
\* once when it returns or raises.
Returned ==
    /\ \A k \in IngestTasks : g_pc[k] \notin {"done", "raised"}
    /\ ~history_ret.called

\* A coroutine that awaits broadcast goes on at once when broadcast returns or
\* raises: nothing else runs on the event loop before BroadcastReturn.
Settled == \A b \in Publishers : b_pc[b] \in {"idle", "sending"}

\* No publish is suspended at a send.
NoPublishInFlight == \A b \in Publishers : b_pc[b] = "idle"

\* No capture thread has read the device yet.
InitOB == t_slept = [t \in Threads |-> TRUE]

(***************************************************************************)
(* server.handle_new_detections                                            *)
(***************************************************************************)

\* The broadcast coroutine the task awaits: it awaits one at a time.
Handler == CHOOSE b \in Publishers : \A c \in Publishers : b <= c

\* The events of lines 126-139 for a processed batch: the detection update,
\* the statistics update, and an alert for every detection marked
\* alertTriggered, in the order of the batch.
RECURSIVE AlertEvents(_)
AlertEvents(ds) ==
    IF ds = <<>> THEN <<>>
    ELSE (IF Head(ds).alertTriggered
          THEN <<[type |-> "alert_triggered", n |-> Head(ds).n]>>
          ELSE <<>>) \o AlertEvents(Tail(ds))

Events(ds) ==
    <<[type |-> "detection_update", n |-> 0], [type |-> "statistics_update", n |-> 0]>>
        \o AlertEvents(ds)

\* handle_new_detections(detections), lines 118-123: the task starts and
\* awaits process_detections.
HandleStart(batch, id) ==
    /\ h_pc = "idle"
    /\ IngestStart("camera", batch, id)
    /\ h_pc' = "ingest"
    /\ UNCHANGED <<h_processed, h_queue, h_sent>>
    /\ UNCHANGED <<wsVars, vpVars, sgVars, obVars>>

\* Line 123: process_detections returns the processed batch.
HandleProcessed ==
    /\ h_pc = "ingest"
    /\ g_pc["camera"] = "done"
    /\ h_processed' = g_processed["camera"]
    /\ h_queue' = Events(g_processed["camera"])
    /\ h_pc' = "next"
    /\ IngestReturn("camera")
    /\ UNCHANGED h_sent
    /\ UNCHANGED <<wsVars, vpVars, sgVars, obVars>>

\* Lines 126-139: the next send_..., which calls broadcast, or the end of the
\* task when every event has been sent.
HandleSend ==
    /\ h_pc = "next"
    /\ IF h_queue = <<>>
       THEN /\ h_pc' = "done"
            /\ UNCHANGED <<h_queue, h_sent, wsVars>>
       ELSE /\ BroadcastStart(Handler)
            /\ h_sent' = Append(h_sent, Head(h_queue))
            /\ h_queue' = Tail(h_queue)
            /\ h_pc' = "sending"
    /\ UNCHANGED h_processed
    /\ UNCHANGED <<vpVars, sgVars, dmVars, obVars>>

\* broadcast returns, or raises: the handler of lines 139-140 logs the
\* exception and the task ends.
HandleSent ==
    /\ h_pc = "sending"
    /\ b_pc[Handler] \in {"done", "raised"}
    /\ h_pc' = IF b_pc[Handler] = "raised" THEN "failed" ELSE "next"
    /\ BroadcastReturn(Handler)
    /\ UNCHANGED <<h_processed, h_queue, h_sent>>
    /\ UNCHANGED <<vpVars, sgVars, dmVars, obVars>>

\* The task is over.
HandleReturn ==
    /\ h_pc \in {"done", "failed"}
    /\ h_pc' = "idle"
    /\ h_processed' = <<>>
    /\ h_queue' = <<>>
    /\ h_sent' = <<>>
    /\ UNCHANGED <<wsVars, vpVars, sgVars, dmVars, obVars>>

\* handle_new_detections is suspended at an await, or is not running: only
\* then does anything else run on the event loop.
HandlerSettled ==
    /\ h_pc \in {"idle", "ingest", "sending"}
    /\ b_pc[Handler] \in {"idle", "sending"}
    /\ g_pc["camera"] \notin {"done", "raised"}

InitHN ==
    /\ h_pc = "idle"
    /\ h_processed = <<>>
    /\ h_queue = <<>>
    /\ h_sent = <<>>

Init == InitWS /\ InitVP /\ InitSG /\ InitDM /\ InitOB /\ InitHN

\* The broadcaster with every interleaving the event loop allows.
NextBroadcast ==
    \/ \E w \in Sockets : Settled /\ Connect(w) /\ UNCHANGED <<vpVars, sgVars, dmVars, obVars, hnVars>>
    \/ \E w \in Sockets : Settled /\ ConnectWelcome(w) /\ UNCHANGED <<vpVars, sgVars, dmVars, obVars, hnVars>>
    \/ \E w \in Sockets : Settled /\ Disconnect(w) /\ UNCHANGED <<vpVars, sgVars, dmVars, obVars, hnVars>>
    \/ \E w \in Sockets : Settled /\ ChannelClose(w) /\ UNCHANGED <<vpVars, sgVars, dmVars, obVars, hnVars>>
    \/ \E b \in Publishers : Settled /\ BroadcastStart(b) /\ UNCHANGED <<vpVars, sgVars, dmVars, obVars, hnVars>>
    \/ \E b \in Publishers : Settled /\ BroadcastResume(b) /\ UNCHANGED <<vpVars, sgVars, dmVars, obVars, hnVars>>
    \/ \E b \in Publishers : BroadcastReturn(b) /\ UNCHANGED <<vpVars, sgVars, dmVars, obVars, hnVars>>

SpecBroadcast == Init /\ [][NextBroadcast]_vars

\* The broadcaster when no other coroutine that touches the live set runs
\* while a publish is suspended: one publish at a time, and no connect or
\* disconnect between its first send and its return.
NextBroadcastSerial ==
    \/ \E w \in Sockets : NoPublishInFlight /\ Connect(w) /\ UNCHANGED <<vpVars, sgVars, dmVars, obVars, hnVars>>
    \/ \E w \in Sockets : NoPublishInFlight /\ ConnectWelcome(w) /\ UNCHANGED <<vpVars, sgVars, dmVars, obVars, hnVars>>
    \/ \E w \in Sockets : NoPublishInFlight /\ Disconnect(w) /\ UNCHANGED <<vpVars, sgVars, dmVars, obVars, hnVars>>
    \/ \E w \in Sockets : Settled /\ ChannelClose(w) /\ UNCHANGED <<vpVars, sgVars, dmVars, obVars, hnVars>>
    \/ \E b \in Publishers : NoPublishInFlight /\ BroadcastStart(b) /\ UNCHANGED <<vpVars, sgVars, dmVars, obVars, hnVars>>
    \/ \E b \in Publishers : Settled /\ BroadcastResume(b) /\ UNCHANGED <<vpVars, sgVars, dmVars, obVars, hnVars>>
    \/ \E b \in Publishers : BroadcastReturn(b) /\ UNCHANGED <<vpVars, sgVars, dmVars, obVars, hnVars>>

SpecBroadcastSerial == Init /\ [][NextBroadcastSerial]_vars

\* websocket_endpoint alone: sockets connect, send up to MaxReceives messages
\* and go away.
NextEndpoint ==
    \/ \E w \in Sockets : Connect(w) /\ UNCHANGED <<vpVars, sgVars, dmVars, obVars, hnVars>>
    \/ \E w \in Sockets : ConnectWelcome(w) /\ UNCHANGED <<vpVars, sgVars, dmVars, obVars, hnVars>>
    \/ \E w \in Sockets : \E msg \in Messages :
           /\ e_received < MaxReceives
           /\ Receive(w, msg)
           /\ UNCHANGED <<vpVars, sgVars, dmVars, obVars, hnVars>>
    \/ \E w \in Sockets : PongSend(w) /\ UNCHANGED <<vpVars, sgVars, dmVars, obVars, hnVars>>
    \/ \E w \in Sockets : Disconnect(w) /\ UNCHANGED <<vpVars, sgVars, dmVars, obVars, hnVars>>
    \/ \E w \in Sockets : ChannelClose(w) /\ UNCHANGED <<vpVars, sgVars, dmVars, obVars, hnVars>>

SpecEndpoint == Init /\ [][NextEndpoint]_vars

\* handle_new_detections on the event loop with the sockets: batches of the
\* camera, of unmasked faces above the threshold, are handled one after the
\* other while sockets connect and go away.
HandlerBatches ==
    { b \in InputBatches :
        /\ Len(b) >= 1
        /\ \A i \in 1..Len(b) :
               ~b[i].hasMask /\ b[i].confidence >= DefaultSettings.confidenceThreshold }

NextHandler ==
    \/ \E w \in Sockets : HandlerSettled /\ Connect(w) /\ UNCHANGED <<vpVars, sgVars, dmVars, obVars, hnVars>>
    \/ \E w \in Sockets : HandlerSettled /\ ConnectWelcome(w) /\ UNCHANGED <<vpVars, sgVars, dmVars, obVars, hnVars>>
    \/ \E w \in Sockets : HandlerSettled /\ Disconnect(w) /\ UNCHANGED <<vpVars, sgVars, dmVars, obVars, hnVars>>
    \/ \E w \in Sockets : HandlerSettled /\ ChannelClose(w) /\ UNCHANGED <<vpVars, sgVars, dmVars, obVars, hnVars>>
    \/ \E batch \in HandlerBatches : \E id \in IDs :
           /\ HandlerSettled
           /\ ingested + Len(batch) <= MaxAlertIngest
           /\ HandleStart(batch, id)
    \/ \E id \in IDs :
           /\ HandlerSettled /\ h_pc = "ingest"
           /\ IngestResume("camera", id, TRUE)
           /\ UNCHANGED <<wsVars, vpVars, sgVars, obVars, hnVars>>
    \/ HandleProcessed
    \/ HandleSend
    \/ /\ HandlerSettled /\ h_pc = "sending"
       /\ BroadcastResume(Handler)
       /\ UNCHANGED <<vpVars, sgVars, dmVars, obVars, hnVars>>
    \/ HandleSent
    \/ HandleReturn

SpecHandler == Init /\ [][NextHandler]_vars

\* The capture pipeline as server.py drives it: the start and stop requests
\* of the event loop thread and the steps of the capture threads,
\* interleaved.  While stop_camera waits in join the event loop thread serves
\* no other request.
NextPipeline ==
    \/ \E opened \in BOOLEAN : StartDetection(opened) /\ UNCHANGED <<wsVars, sgVars, dmVars, obVars, hnVars>>
    \/ StopDetection /\ UNCHANGED <<wsVars, sgVars, dmVars, obVars, hnVars>>
    \/ StopJoin /\ UNCHANGED <<wsVars, sgVars, dmVars, obVars, hnVars>>
    \/ StopRelease /\ UNCHANGED <<wsVars, sgVars, dmVars, obVars, hnVars>>
    \/ \E t \in Threads : LoopCheck(t) /\ UNCHANGED <<wsVars, sgVars, dmVars, obVars, hnVars>>
    \/ \E t \in Threads : \E ret \in BOOLEAN : ReadFrame(t, ret) /\ UNCHANGED <<wsVars, sgVars, dmVars, obVars, hnVars>>
    \/ \E t \in Threads : \E batch \in Batches : \E ok \in BOOLEAN :
           Detect(t, batch, ok) /\ UNCHANGED <<wsVars, sgVars, dmVars, obVars, hnVars>>
    \/ \E t \in Threads : Publish(t) /\ UNCHANGED <<wsVars, sgVars, dmVars, obVars, hnVars>>
    \/ \E t \in Threads : Sleep(t) /\ UNCHANGED <<wsVars, sgVars, dmVars, obVars, hnVars>>

SpecPipeline == Init /\ [][NextPipeline]_vars

\* VideoProcessor with its methods called in any order: start_camera and
\* stop_camera as any caller may call them, besides the guarded endpoints.
NextVideoProcessor ==
    \/ \E opened \in BOOLEAN : StartCamera(opened) /\ UNCHANGED <<wsVars, sgVars, dmVars, obVars, hnVars>>
    \/ StopCamera /\ UNCHANGED <<wsVars, sgVars, dmVars, obVars, hnVars>>
    \/ NextPipeline

SpecVideoProcessor == Init /\ [][NextVideoProcessor]_vars

\* The streams: the pipeline as the server drives it, for its first
\* MaxStreamFrames frames, and the generators of GET /video_feed.  The
\* detector finds no face: what a frame shows plays no part in the stream.
NextStream ==
    \/ \E s \in Streams : VideoFeed(s) /\ UNCHANGED <<wsVars, vpVars, dmVars, obVars, hnVars>>
    \/ \E s \in Streams : StreamCheck(s) /\ UNCHANGED <<wsVars, vpVars, dmVars, obVars, hnVars>>
    \/ \E s \in Streams : \E enc \in Encodings :
           StreamSample(s, enc) /\ UNCHANGED <<wsVars, vpVars, dmVars, obVars, hnVars>>
    \/ \E s \in Streams : StreamResume(s) /\ UNCHANGED <<wsVars, vpVars, dmVars, obVars, hnVars>>
    \/ \E s \in Streams : StreamSleep(s) /\ UNCHANGED <<wsVars, vpVars, dmVars, obVars, hnVars>>
    \/ \E opened \in BOOLEAN : StartDetection(opened) /\ UNCHANGED <<wsVars, sgVars, dmVars, obVars, hnVars>>
    \/ StopDetection /\ UNCHANGED <<wsVars, sgVars, dmVars, obVars, hnVars>>
    \/ StopJoin /\ UNCHANGED <<wsVars, sgVars, dmVars, obVars, hnVars>>
    \/ StopRelease /\ UNCHANGED <<wsVars, sgVars, dmVars, obVars, hnVars>>
    \/ \E t \in Threads : LoopCheck(t) /\ UNCHANGED <<wsVars, sgVars, dmVars, obVars, hnVars>>
    \/ \E t \in Threads : \E ret \in BOOLEAN :
           /\ ret => FramesProcessed < MaxStreamFrames
           /\ ReadFrame(t, ret)
           /\ UNCHANGED <<wsVars, sgVars, dmVars, obVars, hnVars>>
    \/ \E t \in Threads : Detect(t, <<>>, TRUE) /\ UNCHANGED <<wsVars, sgVars, dmVars, obVars, hnVars>>
    \/ \E t \in Threads : Publish(t) /\ UNCHANGED <<wsVars, sgVars, dmVars, obVars, hnVars>>
    \/ \E t \in Threads : Sleep(t) /\ UNCHANGED <<wsVars, sgVars, dmVars, obVars, hnVars>>

SpecStream == Init /\ [][NextStream]_vars

\* The steps of the generator of one stream, which the response drives.
StreamThread(s) ==
    \/ StreamCheck(s) /\ UNCHANGED <<wsVars, vpVars, dmVars, obVars, hnVars>>
    \/ \E enc \in Encodings : StreamSample(s, enc) /\ UNCHANGED <<wsVars, vpVars, dmVars, obVars, hnVars>>
    \/ StreamResume(s) /\ UNCHANGED <<wsVars, vpVars, dmVars, obVars, hnVars>>
    \/ StreamSleep(s) /\ UNCHANGED <<wsVars, vpVars, dmVars, obVars, hnVars>>

\* The streams with a client that keeps reading: a generator that can take a
\* step takes one in the end.
SpecStreamFair == SpecStream /\ \A s \in Streams : WF_vars(StreamThread(s))

\* The capture loop and its sleeps: the guarded endpoints and the loop, with
\* a note of whether each thread has slept since it last read the device.
LoopThread(t) ==
    \/ /\ LoopCheck(t)
       /\ t_slept' = [t_slept EXCEPT ![t] = IF is_running THEN @ ELSE TRUE]
       /\ UNCHANGED <<wsVars, sgVars, dmVars, hnVars>>
    \/ \E ret \in BOOLEAN :
           /\ ret => FramesProcessed < MaxStreamFrames
           /\ ReadFrame(t, ret)
           /\ t_slept' = [t_slept EXCEPT ![t] = IF camera = None THEN @ ELSE FALSE]
           /\ UNCHANGED <<wsVars, sgVars, dmVars, hnVars>>
    \/ \E batch \in Batches : \E ok \in BOOLEAN :
           Detect(t, batch, ok) /\ UNCHANGED <<wsVars, sgVars, dmVars, obVars, hnVars>>
    \/ Publish(t) /\ UNCHANGED <<wsVars, sgVars, dmVars, obVars, hnVars>>
    \/ /\ Sleep(t)
       /\ t_slept' = [t_slept EXCEPT ![t] = TRUE]
       /\ UNCHANGED <<wsVars, sgVars, dmVars, hnVars>>

NextLoop ==
    \/ \E opened \in BOOLEAN : StartDetection(opened) /\ UNCHANGED <<wsVars, sgVars, dmVars, obVars, hnVars>>
    \/ StopDetection /\ UNCHANGED <<wsVars, sgVars, dmVars, obVars, hnVars>>
    \/ StopJoin /\ UNCHANGED <<wsVars, sgVars, dmVars, obVars, hnVars>>
    \/ StopRelease /\ UNCHANGED <<wsVars, sgVars, dmVars, obVars, hnVars>>
    \/ \E t \in Threads : LoopThread(t)

SpecLoop == Init /\ [][NextLoop]_vars

\* The capture threads under the scheduler: the guarded endpoints, with a
\* device that opens, and the steps of the loop, where a thread that can take
\* a step takes one in the end.
CaptureThread(t) ==
    \/ LoopCheck(t) /\ UNCHANGED <<wsVars, sgVars, dmVars, obVars, hnVars>>
    \/ \E ret \in BOOLEAN :
           /\ ret => FramesProcessed < MaxStreamFrames
           /\ ReadFrame(t, ret)
           /\ UNCHANGED <<wsVars, sgVars, dmVars, obVars, hnVars>>
    \/ \E batch \in Batches : \E ok \in BOOLEAN :
           Detect(t, batch, ok) /\ UNCHANGED <<wsVars, sgVars, dmVars, obVars, hnVars>>
    \/ Publish(t) /\ UNCHANGED <<wsVars, sgVars, dmVars, obVars, hnVars>>
    \/ Sleep(t) /\ UNCHANGED <<wsVars, sgVars, dmVars, obVars, hnVars>>

NextCancel ==
    \/ StartDetection(TRUE) /\ UNCHANGED <<wsVars, sgVars, dmVars, obVars, hnVars>>
    \/ StopDetection /\ UNCHANGED <<wsVars, sgVars, dmVars, obVars, hnVars>>
    \/ StopJoin /\ UNCHANGED <<wsVars, sgVars, dmVars, obVars, hnVars>>
    \/ StopRelease /\ UNCHANGED <<wsVars, sgVars, dmVars, obVars, hnVars>>
    \/ \E t \in Threads : CaptureThread(t)

SpecCancel == Init /\ [][NextCancel]_vars /\ WF_vars(\E t \in Threads : CaptureThread(t))

\* The statistics: the two callers of process_detections, which interleave at
\* the awaits.  The settings and the clock stay as they are, and every
\* detection gets the same id, which plays no part in the statistics.
NextStatistics ==
    \/ \E k \in IngestTasks : \E batch \in InputBatches :
           /\ Returned
           /\ ingested + Len(batch) <= MaxIngest
           /\ IngestStart(k, batch, "u1")
           /\ UNCHANGED <<wsVars, vpVars, sgVars, obVars, hnVars>>
    \/ \E k \in IngestTasks :
           Returned /\ IngestResume(k, "u1", TRUE) /\ UNCHANGED <<wsVars, vpVars, sgVars, obVars, hnVars>>
    \/ \E k \in IngestTasks : IngestReturn(k) /\ UNCHANGED <<wsVars, vpVars, sgVars, obVars, hnVars>>

SpecStatistics == Init /\ [][NextStatistics]_vars

\* The history at its capacity: the camera's process_detections is called
\* with batches of one or two masked detections until the deque has been
\* full and has dropped MaxOverflow items.
HistoryBatches == { b \in InputBatches : Len(b) >= 1 /\ \A i \in 1..Len(b) : b[i].hasMask }

NextHistory ==
    \/ \E batch \in HistoryBatches :
           /\ Returned
           /\ ingested + Len(batch) <= maxlen + MaxOverflow
           /\ IngestStart("camera", batch, "u1")
           /\ UNCHANGED <<wsVars, vpVars, sgVars, obVars, hnVars>>
    \/ Returned /\ IngestResume("camera", "u1", TRUE) /\ UNCHANGED <<wsVars, vpVars, sgVars, obVars, hnVars>>
    \/ IngestReturn("camera") /\ UNCHANGED <<wsVars, vpVars, sgVars, obVars, hnVars>>

SpecHistory == Init /\ [][NextHistory]_vars

\* The readers of the history: the camera's process_detections and
\* GET /detections with every limit.
NextHistoryRead ==
    \/ \E batch \in InputBatches :
           /\ Returned
           /\ ingested + Len(batch) <= MaxIngest
           /\ IngestStart("camera", batch, "u1")
           /\ UNCHANGED <<wsVars, vpVars, sgVars, obVars, hnVars>>
    \/ Returned /\ IngestResume("camera", "u1", TRUE) /\ UNCHANGED <<wsVars, vpVars, sgVars, obVars, hnVars>>
    \/ IngestReturn("camera") /\ UNCHANGED <<wsVars, vpVars, sgVars, obVars, hnVars>>
    \/ \E limit \in Limits :
           Returned /\ GetDetections(limit) /\ UNCHANGED <<wsVars, vpVars, sgVars, obVars, hnVars>>
    \/ GetDetectionsReturn /\ UNCHANGED <<wsVars, vpVars, sgVars, obVars, hnVars>>

SpecHistoryRead == Init /\ [][NextHistoryRead]_vars

\* The storage: the camera's process_detections, with an insert_one that
\* stores the detection or raises.
NextStorage ==
    \/ \E batch \in InputBatches :
           /\ Returned
           /\ ingested + Len(batch) <= MaxIngest
           /\ IngestStart("camera", batch, "u1")
           /\ UNCHANGED <<wsVars, vpVars, sgVars, obVars, hnVars>>
    \/ \E saved \in BOOLEAN :
           Returned /\ IngestResume("camera", "u1", saved) /\ UNCHANGED <<wsVars, vpVars, sgVars, obVars, hnVars>>
    \/ IngestReturn("camera") /\ UNCHANGED <<wsVars, vpVars, sgVars, obVars, hnVars>>

SpecStorage == Init /\ [][NextStorage]_vars

\* The alerts and the settings: the camera's process_detections, the changes
\* of the settings, clear_alerts and the clock.
NextAlerts ==
    \/ \E batch \in InputBatches : \E id \in IDs :
           /\ Returned
           /\ ingested + Len(batch) <= MaxAlertIngest
           /\ IngestStart("camera", batch, id)
           /\ UNCHANGED <<wsVars, vpVars, sgVars, obVars, hnVars>>
    \/ \E id \in IDs :
           Returned /\ IngestResume("camera", id, TRUE) /\ UNCHANGED <<wsVars, vpVars, sgVars, obVars, hnVars>>
    \/ IngestReturn("camera") /\ UNCHANGED <<wsVars, vpVars, sgVars, obVars, hnVars>>
    \/ \E new_settings \in SettingsUpdates :
           Returned /\ update_settings(new_settings) /\ UNCHANGED <<wsVars, vpVars, sgVars, obVars, hnVars>>
    \/ \E body \in SettingsUpdates :
           Returned /\ PutSettings(body) /\ UNCHANGED <<wsVars, vpVars, sgVars, obVars, hnVars>>
    \/ Returned /\ clear_alerts /\ UNCHANGED <<wsVars, vpVars, sgVars, obVars, hnVars>>
    \/ Returned /\ Tick /\ UNCHANGED <<wsVars, vpVars, sgVars, obVars, hnVars>>

SpecAlerts == Init /\ [][NextAlerts]_vars

(***************************************************************************)
(* C1: a publish that runs without another coroutine changing the live set *)
(* never raises, attempts a send to every subscriber of the live set,      *)
(* delivers to those whose send succeeds, and removes exactly those whose  *)
(* send failed; get_connection_count() afterwards is the number of         *)
(* subscribers whose send succeeded.                                       *)
(***************************************************************************)
C1_PublishPrunesFailed ==
    \A b \in Publishers :
        /\ b_pc[b] # "raised"
        /\ b_pc[b] = "done" =>
              /\ b_delivered[b] \cup b_disconnected[b] = b_start[b]
              /\ b_delivered[b] \cap b_disconnected[b] = {}
              /\ active_connections = b_start[b] \ b_disconnected[b]
              /\ get_connection_count = Cardinality(b_delivered[b])

C1_Witness ==
    \E b \in Publishers :
        /\ b_pc[b] = "done"
        /\ Cardinality(b_start[b]) = 3
        /\ Cardinality(b_disconnected[b]) = 1
        /\ Cardinality(b_delivered[b]) = 2
        /\ get_connection_count = 2

(***************************************************************************)
(* C2: a publish that is suspended at a send while connect, disconnect or  *)
(* another publish changes the live set still completes without raising    *)
(* and has delivered the event to every subscriber that stayed live for    *)
(* the whole publish (a socket joins the live set once, so these are the   *)
(* sockets of the live set at the call that are in it at the return).      *)
(***************************************************************************)
C2_PublishSafeUnderConcurrency ==
    \A b \in Publishers :
        /\ b_pc[b] # "raised"
        /\ b_pc[b] = "done" => b_start[b] \cap active_connections \subseteq b_delivered[b]

(***************************************************************************)
(* C3: while the pipeline is Running, a start request is a no-op: no step  *)
(* taken while is_camera_running() holds opens another VideoCapture,       *)
(* replaces self.camera or starts another capture thread.                  *)
(***************************************************************************)
C3_StartWhileRunningIsNoOp ==
    [][is_camera_running =>
          /\ Len(handle') = Len(handle)
          /\ camera' = camera
          /\ frame_thread' = frame_thread
          /\ \A t \in Threads : t_pc[t] = "unborn" => t_pc'[t] = "unborn"]_vars

(***************************************************************************)
(* C4: once stop_camera has returned the pipeline reports not running and  *)
(* no VideoCapture is left open, also when a capture iteration was in      *)
(* flight and join timed out; a start_camera that follows and finds the    *)
(* device openable brings the pipeline back to Running with a live loop.   *)
(***************************************************************************)
C4_StopReleasesThenStartSucceeds ==
    /\ [](stop_pc = "idle" /\ ~is_running =>
             /\ ~is_camera_running
             /\ \A h \in 1..Len(handle) : handle[h] # "open")
    /\ [][(/\ stop_pc = "idle" /\ ~is_running
           /\ Len(handle') = Len(handle) + 1
           /\ handle'[Len(handle')] = "open") =>
             /\ is_running' /\ camera' = Len(handle')
             /\ t_pc'[frame_thread'] = "check"]_vars

C4_Witness ==
    /\ stop_inflight
    /\ stop_pc = "idle"
    /\ is_camera_running
    /\ handle[camera] = "open"
    /\ \E h \in 1..Len(handle) : handle[h] = "released"
    /\ \E t \in Threads : t # frame_thread /\ InIteration(t)

(***************************************************************************)
(* C5: in every state a reader can observe, the stored frame is the frame  *)
(* that was annotated with the stored detection batch; stated for the runs *)
(* in which the camera was started once, so that a single capture thread   *)
(* writes the pair.                                                        *)
(***************************************************************************)
C5_FrameAndBatchPublishedTogether ==
    Len(handle) <= 1 /\ current_frame.frame => current_frame.dets = current_detections


(***************************************************************************)
(* C6: the history never holds more than maxlen detections, and it holds   *)
(* exactly the min(ingested, maxlen) most recently ingested ones, oldest   *)
(* first: the n-th detection ingested is found at the place the order of   *)
(* ingestion gives it, and the ones before the newest maxlen are gone.     *)
(***************************************************************************)
C6_HistoryHoldsNewest ==
    LET h == detection_history IN
    /\ Len(h) <= maxlen
    /\ Len(h) = IF ingested < maxlen THEN ingested ELSE maxlen
    /\ \A i \in 1..Len(h) : h[i].n = ingested - Len(h) + i

\* maxlen + 1 detections were ingested: the first is gone, the newest maxlen
\* are there.
C6_Witness ==
    /\ ingested = maxlen + 1
    /\ Len(detection_history) = maxlen
    /\ detection_history[1].n = 2
    /\ detection_history[maxlen].n = maxlen + 1

\* The statistics recomputed from the history, without the rounding.
StatsCountsRecomputed ==
    LET h      == detection_history
        total  == Len(h)
        masked == Cardinality({ i \in 1..total : h[i].hasMask })
    IN  /\ statistics.totalDetections = total
        /\ statistics.maskedCount = masked
        /\ statistics.unmaskedCount = total - masked

(***************************************************************************)
(* C7 as stated: when a process_detections has completed, the statistics   *)
(* are those recomputed from the history, and complianceRate is exactly    *)
(* maskedCount / totalDetections * 100 (here in hundredths of a percent),  *)
(* 0 for an empty history.                                                 *)
(***************************************************************************)
C7_StatisticsExact ==
    (\E k \in IngestTasks : g_pc[k] = "done") =>
        /\ StatsCountsRecomputed
        /\ IF Len(detection_history) = 0
           THEN statistics.complianceRate = 0
           ELSE statistics.complianceRate * Len(detection_history)
                    = 10000 * statistics.maskedCount

(***************************************************************************)
(* C7, amended: when a process_detections has completed, the statistics    *)
(* are those recomputed from the history, and complianceRate is            *)
(* maskedCount / totalDetections * 100 rounded to two decimal places (no   *)
(* number with two decimals is nearer), 0 for an empty history.            *)
(***************************************************************************)
C7_StatisticsRounded ==
    (\E k \in IngestTasks : g_pc[k] = "done") =>
        /\ StatsCountsRecomputed
        /\ LET total == Len(detection_history)
               diff  == statistics.complianceRate * total - 10000 * statistics.maskedCount
           IN  IF total = 0
               THEN statistics.complianceRate = 0
               ELSE 2 * diff <= total /\ -2 * diff <= total

\* An ingest has completed with one masked detection among three: 33.33.
C7_Witness ==
    /\ \E k \in IngestTasks : g_pc[k] = "done"
    /\ Len(detection_history) = 3
    /\ statistics.maskedCount = 1
    /\ statistics.complianceRate = 3333

\* A step of process_detections that has processed one detection.
ProcessedOne == ingested' = ingested + 1

\* The detection such a step has appended to the history.
Newest == detection_history'[Len(detection_history')]

(***************************************************************************)
(* C8: a detection is marked alertTriggered, its alert time is recorded    *)
(* under its id and activeAlerts grows by one exactly when it has no mask, *)
(* its confidence is at least the threshold and the cooldown of its id has *)
(* elapsed (no alert recorded for the id, or one at least alertCooldown    *)
(* ago); otherwise it is not marked, and the counter and the recorded      *)
(* times stay as they are.                                                 *)
(***************************************************************************)
C8_AlertExactlyWhenDue ==
    [][ProcessedOne =>
        LET e   == Newest
            due == /\ ~e.hasMask
                   /\ e.confidence >= settings.confidenceThreshold
                   /\ \/ e.id \notin DOMAIN last_alert_time
                      \/ now - last_alert_time[e.id] >= settings.alertCooldown
        IN  /\ e.alertTriggered <=> due
            /\ due => /\ DOMAIN last_alert_time' = DOMAIN last_alert_time \cup {e.id}
                      /\ last_alert_time'[e.id] = now
                      /\ \A x \in DOMAIN last_alert_time \ {e.id} :
                             last_alert_time'[x] = last_alert_time[x]
                      /\ statistics'.activeAlerts = statistics.activeAlerts + 1
            /\ ~due => /\ last_alert_time' = last_alert_time
                       /\ statistics'.activeAlerts = statistics.activeAlerts
    ]_vars

\* An unmasked detection of confidence 0.95 was ingested under the threshold
\* 0.8 and is marked; its alert is counted and its time recorded.
C8_Witness ==
    /\ settings.confidenceThreshold = 80
    /\ statistics.activeAlerts >= 1
    /\ \E i \in 1..Len(detection_history) :
           LET e == detection_history[i] IN
           /\ ~e.hasMask /\ e.confidence = 95 /\ e.alertTriggered
           /\ e.id \in DOMAIN last_alert_time

(***************************************************************************)
(* C9 as stated: a detection processed less than alertCooldown after the   *)
(* last alert of its id is not marked alertTriggered and does not raise    *)
(* activeAlerts: no two alerts of one id are less than alertCooldown apart.*)
(***************************************************************************)
C9_NoSecondAlertWithinCooldown ==
    [][ProcessedOne =>
        LET e == Newest IN
        (e.id \in DOMAIN alerted_at /\ now - alerted_at[e.id] < settings.alertCooldown)
            => /\ ~e.alertTriggered
               /\ statistics'.activeAlerts = statistics.activeAlerts
    ]_vars

(***************************************************************************)
(* C9, amended: a detection processed less than alertCooldown (the value   *)
(* in force when it is processed) after the last alert of its id is not    *)
(* marked alertTriggered and does not raise activeAlerts, provided         *)
(* clear_alerts has not emptied the recorded alert times since that alert. *)
(***************************************************************************)
C9_NoSecondAlertUnlessCleared ==
    [][ProcessedOne =>
        LET e == Newest IN
        (/\ e.id \in DOMAIN alerted_at
         /\ e.id \in DOMAIN last_alert_time
         /\ now - alerted_at[e.id] < settings.alertCooldown)
            => /\ ~e.alertTriggered
               /\ statistics'.activeAlerts = statistics.activeAlerts
    ]_vars

\* Two unmasked detections of confidence 0.95 got the same id within the
\* cooldown: the first is marked, the second is not, one alert is counted.
C9_Witness ==
    /\ Len(detection_history) = 2
    /\ LET e1 == detection_history[1]
           e2 == detection_history[2]
       IN  /\ e1.id = e2.id
           /\ ~e1.hasMask /\ e1.confidence = 95 /\ e1.alertTriggered
           /\ ~e2.hasMask /\ e2.confidence = 95 /\ ~e2.alertTriggered
           /\ e2.confidence >= settings.confidenceThreshold
           /\ e1.id \in DOMAIN last_alert_time
           /\ now - last_alert_time[e1.id] < settings.alertCooldown
    /\ statistics.activeAlerts = 1

(***************************************************************************)
(* C10: update_settings with a partial settings object gives the fields it *)
(* names their new values, leaves every other field of the settings as it  *)
(* was, returns the resulting settings, and leaves the history, the        *)
(* statistics and the recorded alert times unchanged.                      *)
(***************************************************************************)
C10_UpdateSettingsMerges ==
    [][\A p \in SettingsUpdates :
          update_settings(p) =>
              /\ DOMAIN settings' = DOMAIN settings
              /\ \A f \in DOMAIN settings :
                     settings'[f] = IF f \in DOMAIN p THEN p[f] ELSE settings[f]
              /\ settings_ret' = settings'
              /\ detection_history' = detection_history
              /\ statistics' = statistics
              /\ last_alert_time' = last_alert_time
    ]_vars

\* update_settings({confidenceThreshold: 0.5}) or update_settings({alertCooldown:
\* 2500}) was called when the other field had been changed before and alerts
\* had been recorded: both fields hold their changed values.
C10_Witness ==
    /\ settings.confidenceThreshold = 50
    /\ settings.alertCooldown = 2500
    /\ settings.visualAlerts /\ settings.soundAlerts
    /\ settings_ret = settings
    /\ Len(detection_history) >= 1
    /\ statistics.activeAlerts >= 1
    /\ DOMAIN last_alert_time # {}

(***************************************************************************)
(* C11: a tick of a stream yields a chunk exactly when a frame is stored   *)
(* and its encoding succeeds; a tick that finds no frame, or whose         *)
(* encoding returns failure or raises, yields nothing, and the stream goes *)
(* on to its sleep and its next tick instead of ending.                    *)
(***************************************************************************)
C11_StreamWaitsAndSkips ==
    [][\A s \in Streams :
          /\ \A enc \in Encodings :
                 StreamSample(s, enc) =>
                     /\ s_pc'[s] = "yielded" <=> (current_frame.frame /\ enc = "ok")
                     /\ s_pc'[s] # "yielded" => s_pc'[s] = "sleep"
          /\ s_pc[s] = "sleep" /\ s_pc'[s] # "sleep" => s_pc'[s] = "check"
    ]_vars

\* A stream has had a tick before any frame was stored and a tick whose
\* encoding failed, and has now yielded a chunk.
C11_Witness ==
    \E s \in Streams :
        /\ s_pc[s] = "yielded"
        /\ "noframe" \in s_seen[s]
        /\ "encfail" \in s_seen[s]

(***************************************************************************)
(* C12: a start_camera whose device does not open starts no capture loop   *)
(* and leaves the pipeline stopped: is_camera_running() is false after it. *)
(***************************************************************************)
C12_FailedStartLeavesStopped ==
    [][(/\ Len(handle') = Len(handle) + 1
        /\ handle'[Len(handle')] = "unopened")
           => /\ ~is_camera_running'
              /\ t_pc' = t_pc
    ]_vars

\* A step of stop_camera.
StopStep == stop_pc' # stop_pc

\* No VideoCapture holds the device.
NoDeviceHeld == \A h \in 1..Len(handle) : handle[h] # "open"

(***************************************************************************)
(* C13 as stated: a stop_camera called on a pipeline that was never        *)
(* started or that a stop_camera has stopped ends with the pipeline not    *)
(* running, no device held and no capture loop alive.                      *)
(***************************************************************************)
C13_RepeatedStopNoLoopAlive ==
    [][(stop_pc = "release" /\ stop_pc' = "idle" /\ camera = None)
           => /\ ~is_running'
              /\ camera' = None
              /\ NoDeviceHeld'
              /\ \A t \in Threads : t_pc'[t] \in {"unborn", "dead"}
    ]_vars

(***************************************************************************)
(* C13, amended: a stop_camera called on a pipeline that was never started *)
(* or that a stop_camera has stopped changes nothing in any of its steps:  *)
(* the pipeline is and stays not running, with no camera object and no     *)
(* device held.  (A capture loop whose join timed out may still be alive.) *)
(***************************************************************************)
C13_RepeatedStopChangesNothing ==
    [][(StopStep /\ camera = None /\ ~is_running)
           => /\ UNCHANGED <<is_running, camera, handle, frame_thread, t_pc>>
              /\ ~is_running' /\ camera' = None /\ NoDeviceHeld'
    ]_vars

\* A second stop_camera is under way on a pipeline that a first one has
\* stopped.
C13_Witness ==
    /\ stop_pc = "release"
    /\ camera = None
    /\ ~is_running
    /\ frame_thread # None
    /\ \E h \in 1..Len(handle) : handle[h] = "released"

\* C14: get_detection_history(limit) returns the min(limit, length) newest
\* entries of the history, oldest first, and so nothing when limit is 0.
C14_HistoryReadIsNewestLimit ==
    history_ret.called =>
        LET len == Len(detection_history)
            n   == IF history_ret.limit < len THEN history_ret.limit ELSE len
        IN  history_ret.result = SubSeq(detection_history, len - n + 1, len)

\* C15: clear_alerts sets the count of active alerts to zero and empties the
\* map of the last alert times, and changes nothing else: the history, the
\* settings and the other statistics stay as they were.
C15_ClearAlertsOnlyClearsAlerts ==
    [][clear_alerts =>
          /\ statistics'.activeAlerts = 0
          /\ last_alert_time' = EmptyMap
          /\ detection_history' = detection_history
          /\ settings' = settings
          /\ db' = db
          /\ \A f \in DOMAIN statistics \ {"activeAlerts"} :
                 statistics'[f] = statistics[f]]_vars

\* Alerts have been raised and counted in the statistics, and have been cleared.
C15_Witness ==
    /\ statistics.activeAlerts = 0
    /\ last_alert_time = EmptyMap
    /\ statistics.unmaskedCount >= 1
    /\ \E i \in 1..Len(detection_history) : detection_history[i].alertTriggered

\* C16: connect adds the socket to the live set and sends it, and no other
\* socket, a connection_established message; when that send fails the socket
\* is removed from the live set again and the caller goes on without an error.
C16_ConnectWelcomesOrRemoves ==
    [][\A w \in Sockets :
          /\ Connect(w) => w \in active_connections' /\ e_out' = e_out
          /\ (ep[w] = "welcome" /\ ep'[w] # "welcome") =>
                 /\ ep'[w] = "recv"
                 /\ \A v \in Sockets \ {w} :
                        /\ e_out'[v] = e_out[v]
                        /\ v \in active_connections' <=> v \in active_connections
                 /\ \/ /\ e_out'[w] = Append(e_out[w], "connection_established")
                       /\ w \in active_connections'
                    \/ /\ e_out'[w] = e_out[w]
                       /\ w \notin active_connections']_vars

\* One socket has been welcomed and is live while another, whose welcome
\* failed, has been removed and its endpoint waits for messages.
C16_Witness ==
    \E w, v \in Sockets :
        /\ ep[w] = "recv" /\ e_out[w] = <<>> /\ w \notin active_connections
        /\ ep[v] = "recv" /\ e_out[v] = <<"connection_established">>
        /\ v \in active_connections

\* C17: a ping is answered by exactly one pong, sent to the socket the ping
\* came from, and every other message, of an unknown type or malformed, is
\* ignored: nothing is sent and the socket stays connected and live.
C17_PingPongOthersIgnored ==
    [][\A w \in Sockets :
          /\ (ep[w] = "pong" /\ w \notin closed /\ ep'[w] # "pong") =>
                 /\ e_out'[w] = Append(e_out[w], "pong")
                 /\ \A v \in Sockets \ {w} : e_out'[v] = e_out[v]
          /\ \A msg \in Messages \ {"ping"} :
                 Receive(w, msg) =>
                     /\ e_out' = e_out
                     /\ ep'[w] = "recv"
                     /\ w \in active_connections' <=> w \in active_connections
                     /\ closed' = closed]_vars

\* C18: a failure of the storage never leaves process_detections: whichever
\* inserts of a batch fail, the call returns the whole processed batch, as
\* long as its input and in its order, with every detection of it appended
\* to the history and the statistics recomputed.
C18_StorageFailureSwallowed ==
    \A k \in IngestTasks :
        /\ g_pc[k] # "raised"
        /\ g_pc[k] = "done" =>
               /\ Len(g_processed[k]) = Len(g_batch[k])
               /\ \A i \in 1..Len(g_batch[k]) :
                      /\ g_processed[k][i].hasMask = g_batch[k][i].hasMask
                      /\ g_processed[k][i].confidence = g_batch[k][i].confidence
                      /\ \E j \in 1..Len(detection_history) :
                             detection_history[j] = g_processed[k][i]
               /\ StatsCountsRecomputed

\* A process_detections returns a batch of two of which the storage took the
\* second only.
C18_Witness ==
    \E k \in IngestTasks :
        /\ g_pc[k] = "done"
        /\ Len(g_processed[k]) = 2
        /\ g_processed[k][1].n \notin db
        /\ g_processed[k][2].n \in db

\* C19: the capture loop calls the detection callback once, with the batch,
\* in every iteration in which the detector ran and returned a non-empty
\* batch, and in no other: not for the frames that reuse the stored batch,
\* not after a detection that found nothing, not after a failed read.
C19_CallbackOncePerFreshBatch ==
    [][\A t \in Threads :
          /\ (t_pc[t] = "detect" /\ t_pc'[t] # "detect") =>
                 t_callback'[t] =
                     IF t_count[t] % detection_interval = 0 /\ current_detections' # <<>>
                     THEN Called(current_detections')
                     ELSE NotCalled
          /\ ~(t_pc[t] = "detect" /\ t_pc'[t] # "detect") =>
                 t_callback'[t] \in {t_callback[t], NotCalled}
          /\ t_pc'[t] \in {"check", "read", "detect"} => ~t_callback'[t].called]_vars

\* The callback has been called in the loop's second pass of the detector,
\* after the frames that reused the batch of the first.
C19_Witness ==
    \E t \in Threads :
        /\ t_callback[t].called
        /\ t_callback[t].arg # <<>>
        /\ t_count[t] = detection_interval
        /\ t_pc[t] = "publish"

\* C20: the callback does not hold the loop back: in an iteration that calls
\* it the loop goes on to publish the frame of the iteration and to advance
\* its frame counter, whether the callback returns or raises.
C20_CallbackNeverSkipsPublish ==
    [][\A t \in Threads :
          (t_pc[t] = "detect" /\ t_callback'[t].called) => t_pc'[t] = "publish"]_vars

\* C21: a failed read does not end the capture loop: the iteration leaves the
\* stored frame, the stored batch and the frame counter as they were, runs no
\* detection and calls no callback, and the loop returns to its test, from
\* which it reads again as long as the pipeline is running.
C21_FailedReadSkipsIteration ==
    [][\A t \in Threads :
          /\ \A ret \in BOOLEAN :
                 (ReadFrame(t, ret) /\ camera # None /\ ~(handle[camera] = "open" /\ ret)) =>
                     /\ t_pc'[t] = "check"
                     /\ UNCHANGED <<current_frame, current_detections, t_count, t_dets>>
                     /\ ~t_callback'[t].called
          /\ (t_pc[t] = "check" /\ is_running /\ t_pc'[t] # "check") =>
                 t_pc'[t] = "read"]_vars

\* A capture thread is about to read again after a read that failed, with a
\* frame of an earlier iteration still stored.
C21_Witness ==
    \E t \in Threads :
        /\ t_pc[t] = "read"
        /\ ~t_slept[t]
        /\ is_running
        /\ current_frame.frame

\* C22: with detection_interval 5 the loop runs the detector in an iteration
\* exactly when its frame counter is a multiple of 5, storing the batch it
\* returns; in every other iteration it takes a copy of the stored batch and
\* leaves the stored batch alone; the frame it then publishes is annotated
\* with the batch of the iteration, and the counter advances by one.
C22_DetectorEveryFifthFrame ==
    [][\A t \in Threads :
          /\ \A batch \in Batches : \A ok \in BOOLEAN :
                 Detect(t, batch, ok) =>
                     IF t_count[t] % detection_interval = 0
                     THEN /\ current_detections' = batch
                          /\ ok => t_dets'[t] = batch /\ t_pc'[t] = "publish"
                     ELSE /\ current_detections' = current_detections
                          /\ t_dets'[t] = current_detections
                          /\ t_pc'[t] = "publish"
          /\ (t_pc[t] = "publish" /\ t_pc'[t] # "publish") =>
                 /\ current_frame' = draw_detections(t_dets[t])
                 /\ t_count'[t] = t_count[t] + 1]_vars

\* The frame after the one the detector saw is about to be published with a
\* copy of the detector's batch.
C22_Witness ==
    \E t \in Threads :
        /\ t_pc[t] = "publish"
        /\ t_count[t] % detection_interval = 1
        /\ t_dets[t] # <<>>
        /\ t_dets[t] = current_detections

\* C23: stop_camera cancels the loop: a capture thread that reaches its test
\* with the flag cleared ends there, so that it completes at most the
\* iteration that was in flight; a thread that has ended reads the device
\* and publishes no more; and while no start sets the flag again, every live
\* thread ends, whichever way its iteration goes.
C23_StopCancelsLoop ==
    /\ [][\A t \in Threads :
             /\ (t_pc[t] = "check" /\ ~is_running /\ t_pc'[t] # "check") =>
                    t_pc'[t] = "dead"
             /\ t_pc[t] = "dead" => t_pc'[t] = "dead"]_vars
    /\ ~is_running ~> (is_running \/ \A t \in Threads : ~Alive(t))

\* The flag is cleared while a capture thread is in an iteration that has
\* just read the device.
C23_Witness ==
    \E t \in Threads :
        /\ ~is_running
        /\ stop_pc = "join"
        /\ t_pc[t] \in {"detect", "publish"}

\* C24: once the pipeline is stopped every stream that is under way ends in
\* the end, and a stream that has ended stays ended, also when the pipeline
\* is started again.
C24_StreamsEndOnceStopped ==
    /\ \A s \in Streams :
           (s_pc[s] \in {"check", "sample", "yielded", "sleep"}
               /\ stop_pc = "idle" /\ ~is_running) ~> (s_pc[s] = "ended")
    /\ [][\A s \in Streams : s_pc[s] = "ended" => s_pc'[s] = "ended"]_vars

\* C25: the capture loop sleeps between any two device reads that follow each
\* other, whichever way the iteration between them went: a thread about to
\* read the device has slept since its last read.
C25_SleepBetweenReads ==
    \A t \in Threads : t_pc[t] = "read" /\ camera # None => t_slept[t]

\* C26: whatever start and stop requests have been served, at most one
\* capture thread is alive.
C26_AtMostOneCaptureLoop ==
    Cardinality({ t \in Threads : Alive(t) }) <= 1

\* C27: at every point at which a request can be served, also while a
\* process_detections waits for the storage or two of them interleave,
\* get_statistics returns counts equal to those recomputed from the history:
\* the total, the masked and the unmasked detections.
C27_SnapshotMatchesHistory ==
    LET snapshot == get_statistics
        total    == Len(detection_history)
        masked   == Cardinality({ i \in 1..total : detection_history[i].hasMask })
    IN  /\ snapshot.totalDetections = total
        /\ snapshot.maskedCount = masked
        /\ snapshot.unmaskedCount = total - masked

\* The detections of a processed batch that are marked alertTriggered.
Alerted(ds) == { i \in 1..Len(ds) : ds[i].alertTriggered }

(***************************************************************************)
(* C28: when handle_new_detections has ended for a batch it has sent one   *)
(* detection_update, then one statistics_update, then one alert_triggered  *)
(* for each detection of the batch marked alertTriggered, in the order of  *)
(* the batch, and none for the others.                                     *)
(***************************************************************************)
C28_EventsPerBatchInOrder ==
    h_pc \in {"done", "failed"} =>
        /\ Len(h_sent) = 2 + Cardinality(Alerted(h_processed))
        /\ h_sent[1].type = "detection_update"
        /\ h_sent[2].type = "statistics_update"
        /\ \A j \in 3..Len(h_sent) :
               /\ h_sent[j].type = "alert_triggered"
               /\ \E i \in Alerted(h_processed) : h_processed[i].n = h_sent[j].n
               /\ \A k \in 3..(j - 1) : h_sent[k].n < h_sent[j].n

====
